---- MODULE Spec2Model ----
(***************************************************************************)
(* Model of enhancing/modules/stage1/quantizers.py: BaseQuantizer.forward, *)
(* VectorQuantizer and GumbelQuantizer.                                    *)
(*                                                                         *)
(* Numbers.  A tensor entry is an integer counting units of 1/Scale, and   *)
(* sums, differences and products of entries are exact.  F.normalize       *)
(* divides by the Euclidean norm and rounds to the nearest representable   *)
(* value.  A mean (a loss) is a fraction [num, den] in lowest terms.       *)
(*                                                                         *)
(* Tensors.  A vector is a sequence of entries; a (B, T, D) tensor is a    *)
(* sequence of B sequences of T vectors of length D; a (R, D) matrix is a  *)
(* sequence of R vectors.  Codebook indices are 0-based, as in the code.   *)
(***************************************************************************)
EXTENDS Integers, Sequences, FiniteSets

VARIABLES pc, self, ctor, z, residual, z_q, loss, losses, encoding_indices,
          calls, err

vars == <<pc, self, ctor, z, residual, z_q, loss, losses, encoding_indices,
          calls, err>>

(***************************************************************************)
(* Bounds of the model.                                                    *)
(***************************************************************************)
\* resolution of the fixed-point numbers: 1.0 is Scale units
Scale == 5
\* n_embed ranges over 1..MaxEmbed
MaxEmbed == 2
\* B * T, the number of latent vectors of an input, is at most MaxPos
MaxPos == 2
\* num_quantizers ranges over None and 0..MaxQuantizers
MaxQuantizers == 2

\* the vectors inputs and codebook rows are built from, per embed_dim
Vecs(d) == {v \in {<<0, 0>>, <<3, 0>>, <<1, 1>>} : Len(v) = d}

EmbedDims == {2}

\* beta as a fraction <<numerator, denominator>>: the default 0.25, and -1
Betas == {<<1, 4>>, <<-1, 1>>}

\* Python's None where an int is expected (num_quantizers: Optional[int])
None == -1

\* (B, T) with B * T <= MaxPos
Shapes == {s \in (1..MaxPos) \X (1..MaxPos) : s[1] * s[2] <= MaxPos}

\* all (B, T, d) tensors over Vecs(d)
Tensors(d) ==
    UNION {[1..s[1] -> [1..s[2] -> Vecs(d)]] : s \in Shapes}

\* all (n, d) embedding tables over Vecs(d), n in 1..MaxEmbed
Weights(n, d) == [1..n -> Vecs(d)]

(***************************************************************************)
(* Arithmetic on vectors and fractions.                                    *)
(***************************************************************************)
\* a sequence given as a function on 1..n, as the tuple of its values
AsSeq(f) == f \o <<>>

RECURSIVE SumTo(_, _)
SumTo(s, n) == IF n = 0 THEN 0 ELSE s[n] + SumTo(s, n - 1)

\* the sum of the entries of a sequence
SumSeq(s) == SumTo(s, Len(s))

Abs(a) == IF a < 0 THEN -a ELSE a

\* torch.sum(x ** 2, dim=1) of one row
SumSq(v) == SumSeq(AsSeq([k \in 1..Len(v) |-> v[k] * v[k]]))

\* torch.einsum('b d, n d -> b n', ...) for one pair of rows
Dot(u, v) == SumSeq(AsSeq([k \in 1..Len(u) |-> u[k] * v[k]]))

VecAdd(u, v) == AsSeq([k \in 1..Len(u) |-> u[k] + v[k]])
VecSub(u, v) == AsSeq([k \in 1..Len(u) |-> u[k] - v[k]])

\* elementwise operations on (B, T, D) tensors
TAdd(x, y) == AsSeq([b \in 1..Len(x) |-> AsSeq([t \in 1..Len(x[b]) |-> VecAdd(x[b][t], y[b][t])])])
TSub(x, y) == AsSeq([b \in 1..Len(x) |-> AsSeq([t \in 1..Len(x[b]) |-> VecSub(x[b][t], y[b][t])])])

\* torch.zeros_like
ZerosLike(x) ==
    AsSeq([b \in 1..Len(x) |-> AsSeq([t \in 1..Len(x[b]) |-> AsSeq([k \in 1..Len(x[b][t]) |-> 0])])])

\* the shape of a (B, T, D) tensor
Shape(x) == <<Len(x), Len(x[1]), Len(x[1][1])>>

\* a * Scale / sqrt(s) rounded to the nearest integer, for s > 0 and a*a <= s
RoundQuot(a, s) ==
    LET m == Abs(a) * Scale
        n == CHOOSE n \in 0..Scale :
                 /\ (n = 0 \/ (2 * n - 1) * (2 * n - 1) * s <= 4 * m * m)
                 /\ 4 * m * m < (2 * n + 1) * (2 * n + 1) * s
    IN  IF a < 0 THEN -n ELSE n

RECURSIVE Gcd(_, _)
Gcd(a, b) == IF b = 0 THEN a ELSE Gcd(b, a % b)

\* the fraction n / d (d > 0) in lowest terms
Frac(n, d) ==
    LET g == Gcd(Abs(n), d)
    IN  [num |-> n \div g, den |-> d \div g]

FracAdd(p, q) == Frac(p.num * q.den + q.num * p.den, p.den * q.den)
FracMul(p, q) == Frac(p.num * q.num, p.den * q.den)

\* torch.mean of the elementwise square of x - y, in units of 1/Scale^2
MeanSqDiff(x, y) ==
    Frac(SumSeq(AsSeq([b \in 1..Len(x) |->
             SumSeq(AsSeq([t \in 1..Len(x[b]) |->
                 SumSq(VecSub(x[b][t], y[b][t]))]))])),
         Len(x) * Len(x[1]) * Len(x[1][1]))

(***************************************************************************)
(* BaseQuantizer.__init__: self.norm.                                      *)
(***************************************************************************)
\* F.normalize(v, dim=-1): v / max(||v||, eps); the zero vector stays zero
Normalize(v) ==
    LET s == SumSq(v)
    IN  IF s = 0 THEN v ELSE AsSeq([k \in 1..Len(v) |-> RoundQuot(v[k], s)])

\* self.norm applied to one vector of the last dimension
Norm(q, v) == IF q.use_norm THEN Normalize(v) ELSE v

\* self.norm of a (R, D) matrix and of a (B, T, D) tensor
NormRows(q, m) == AsSeq([r \in 1..Len(m) |-> Norm(q, m[r])])
NormTensor(q, x) == AsSeq([b \in 1..Len(x) |-> NormRows(q, x[b])])

(***************************************************************************)
(* VectorQuantizer.quantize.                                               *)
(***************************************************************************)
\* the entries of a (B, T, D) tensor in memory order
Flatten(x) ==
    LET T == Len(x[1])
        D == Len(x[1][1])
    IN  AsSeq([i \in 1..(Len(x) * T * D) |->
            x[((i - 1) \div (T * D)) + 1][(((i - 1) \div D) % T) + 1][((i - 1) % D) + 1]])

\* x.view(-1, d)
ViewRows(x, d) ==
    LET f == Flatten(x)
    IN  AsSeq([r \in 1..(Len(f) \div d) |-> AsSeq([k \in 1..d |-> f[(r - 1) * d + k]])])

\* d[r][n] = |z_r|^2 + |e_n|^2 - 2 z_r . e_n
Distances(zrows, erows) ==
    AsSeq([r \in 1..Len(zrows) |-> AsSeq([n \in 1..Len(erows) |->
        SumSq(zrows[r]) + SumSq(erows[n]) - 2 * Dot(zrows[r], erows[n])])])

\* a wrong ArgMin: torch.argmax in place of torch.argmin
ArgMinAsArgMax(row) ==
    (CHOOSE i \in 1..Len(row) :
        /\ \A j \in 1..Len(row) : row[i] >= row[j]
        /\ \A j \in 1..(i - 1) : row[j] < row[i]) - 1

\* torch.argmin over one row: the 0-based index of the first minimal value
ArgMin(row) ==
    (CHOOSE i \in 1..Len(row) :
        /\ \A j \in 1..Len(row) : row[i] <= row[j]
        /\ \A j \in 1..(i - 1) : row[j] > row[i]) - 1

\* flat.view(B, T)
ViewBT(flat, B, T) == AsSeq([b \in 1..B |-> AsSeq([t \in 1..T |-> flat[(b - 1) * T + t]])])

\* self.embedding(indices): a table lookup per position
Embedding(weight, indices) ==
    AsSeq([b \in 1..Len(indices) |-> AsSeq([t \in 1..Len(indices[b]) |->
        weight[indices[b][t] + 1]])])

\* a wrong VQLoss: beta added to the commitment term, not multiplied with it
VQLossBetaAdded(beta, z_qnorm, z_norm) ==
    FracAdd(MeanSqDiff(z_qnorm, z_norm),
            FracAdd(Frac(beta[1], beta[2]), MeanSqDiff(z_qnorm, z_norm)))

\* mean((z_qnorm.detach() - z_norm)^2) + beta * mean((z_qnorm - z_norm.detach())^2)
VQLoss(beta, z_qnorm, z_norm) ==
    FracAdd(MeanSqDiff(z_qnorm, z_norm),
            FracMul(Frac(beta[1], beta[2]), MeanSqDiff(z_qnorm, z_norm)))

\* encoding_indices of quantize, shape (B, T)
VQIndices(q, x) ==
    LET z_reshaped_norm == NormRows(q, ViewRows(x, q.embed_dim))
        embedding_norm == NormRows(q, q.embedding)
        d == Distances(z_reshaped_norm, embedding_norm)
        flat == AsSeq([r \in 1..Len(d) |-> ArgMin(d[r])])
    IN  ViewBT(flat, Len(x), Len(x[1]))

\* the triple VectorQuantizer.quantize returns
VQQuantize(q, x) ==
    LET indices == VQIndices(q, x)
        zq == Embedding(q.embedding, indices)
        z_qnorm == NormTensor(q, zq)
        z_norm == NormTensor(q, x)
    IN  [z_q |-> z_qnorm,
         loss |-> VQLoss(q.beta, z_qnorm, z_norm),
         indices |-> indices]

(***************************************************************************)
(* Constructors.                                                           *)
(***************************************************************************)
NoObject == [cls |-> "none"]

\* the straight_through keyword a caller may pass; it lands in **kwargs
KwStraightThrough == {"absent", "False"}

\* BaseQuantizer.__init__(straight_through=True, use_norm=True)
BaseInit(straight_through, use_norm) ==
    [straight_through |-> straight_through, use_norm |-> use_norm]

\* the object VectorQuantizer.__init__ builds.  weight is the embedding table:
\* a parameter that __init__ fills at random and training then moves, so any
\* table of the right shape is one a quantizer can hold
VectorQuantizerObject(embed_dim, n_embed, beta, use_norm, use_residual, num_quantizers, weight) ==
    LET base == BaseInit(TRUE, use_norm)
    IN  [cls |-> "VectorQuantizer",
         straight_through |-> base.straight_through,
         use_norm |-> base.use_norm,
         n_embed |-> n_embed,
         embed_dim |-> embed_dim,
         beta |-> beta,
         use_residual |-> use_residual,
         num_quantizers |-> num_quantizers,
         embedding |-> weight]

\* num_quantizers as a caller may pass it
NumQuantizers == {None} \cup (0..MaxQuantizers)

\* <<use_residual, num_quantizers>> as a caller may pass them: the defaults
\* (False, None), and residual quantization with any num_quantizers
ResidualArgs == {<<FALSE, None>>} \cup ({TRUE} \X NumQuantizers)

\* VectorQuantizer(embed_dim, n_embed, beta, use_norm, use_residual,
\*                 num_quantizers, **kwargs)
NewVectorQuantizer ==
    /\ pc = "start"
    /\ \E embed_dim \in EmbedDims, n_embed \in 1..MaxEmbed, beta \in Betas,
          use_norm \in BOOLEAN, ra \in ResidualArgs, kw \in KwStraightThrough :
          \E weight \in Weights(n_embed, embed_dim) :
             /\ self' = VectorQuantizerObject(embed_dim, n_embed, beta, use_norm,
                                              ra[1], ra[2], weight)
             /\ ctor' = [cls |-> "VectorQuantizer", kw |-> kw,
                         use_residual |-> ra[1], num_quantizers |-> ra[2]]
    /\ pc' = "idle"
    /\ UNCHANGED <<z, residual, z_q, loss, losses, encoding_indices, calls, err>>

\* the names bound at module level (imports and class statements)
ModuleGlobals ==
    {"partial", "Tuple", "Optional", "torch", "nn", "F", "get_obj_from_str",
     "initialize_from_config", "BaseQuantizer", "VectorQuantizer",
     "GumbelQuantizer"}

\* the parameters of GumbelQuantizer.__init__, its only local names
GumbelInitLocals ==
    {"self", "embed_dim", "n_embed", "temp_init", "kl_weight", "use_norm",
     "use_residual", "num_quantizers", "kwargs"}

\* Python's lookup of a name read in GumbelQuantizer.__init__: the locals,
\* then the module's globals (no builtin is called straight_through)
Resolves(name) == name \in GumbelInitLocals \cup ModuleGlobals

\* GumbelQuantizer(embed_dim, n_embed, ..., use_residual, num_quantizers):
\* super().__init__ and the first two assignments run, then
\* "self.straight_through = straight_through" reads a name that is bound
\* nowhere and raises NameError; the caller gets no object.
NewGumbelQuantizer ==
    /\ pc = "start"
    /\ ~Resolves("straight_through")
    /\ \E ra \in ResidualArgs :
          ctor' = [cls |-> "GumbelQuantizer", kw |-> "absent",
                   use_residual |-> ra[1], num_quantizers |-> ra[2]]
    /\ pc' = "raised"
    /\ err' = "NameError"
    /\ UNCHANGED <<self, z, residual, z_q, loss, losses, encoding_indices, calls>>

(***************************************************************************)
(* BaseQuantizer.forward, one action per step of its control flow.         *)
(***************************************************************************)
\* self.quantize of the object's class
Quantize(q, x) == VQQuantize(q, x)

\* what one quantize call was given and returned
CallRecord(q, x, r) ==
    [input |-> x, z_q |-> r.z_q, loss |-> r.loss, indices |-> r.indices,
     embedding |-> q.embedding]

\* forward(z) up to the loop: the single quantize call without residual
\* quantization, the initialisation of z_q, residual and the two lists with
\* it; range(None) raises TypeError
Forward ==
    /\ pc = "idle"
    /\ \E x \in Tensors(self.embed_dim) :
          /\ z' = x
          /\ IF ~self.use_residual
             THEN \E r \in {Quantize(self, x)} :
                      /\ z_q' = r.z_q
                      /\ loss' = r.loss
                      /\ encoding_indices' = r.indices
                      /\ calls' = <<CallRecord(self, x, r)>>
                      /\ pc' = "straight_through"
                      /\ UNCHANGED <<residual, losses, err>>
             ELSE /\ z_q' = ZerosLike(x)
                  /\ residual' = x
                  /\ losses' = <<>>
                  /\ encoding_indices' = <<>>
                  /\ IF self.num_quantizers = None
                     THEN pc' = "raised" /\ err' = "TypeError"
                     ELSE pc' = "loop" /\ UNCHANGED err
                  /\ UNCHANGED <<loss, calls>>
    /\ UNCHANGED <<self, ctor>>

\* a wrong ResidualSub: the stage output is added to the residual
ResidualSubAsAdd(res, z_qi) == TAdd(res, z_qi)

\* residual.sub_(z_qi)
ResidualSub(res, z_qi) == TSub(res, z_qi)

\* z_q.add_(z_qi)
QuantizedAdd(acc, z_qi) == TAdd(acc, z_qi)

\* one iteration of "for _ in range(self.num_quantizers)"
Stage ==
    /\ pc = "loop"
    /\ Len(losses) < self.num_quantizers
    /\ \E r \in {Quantize(self, residual)} :
           /\ residual' = ResidualSub(residual, r.z_q)
           /\ z_q' = QuantizedAdd(z_q, r.z_q)
           /\ encoding_indices' = Append(encoding_indices, r.indices)
           /\ losses' = Append(losses, r.loss)
           /\ loss' = r.loss
           /\ calls' = Append(calls, CallRecord(self, residual, r))
    /\ UNCHANGED <<pc, self, ctor, z, err>>

\* a wrong StackLast: torch.stack(list, dim=1), shape (B, N, T)
StackLastAsDim1(list) ==
    AsSeq([b \in 1..Len(list[1]) |-> AsSeq([k \in 1..Len(list) |->
        AsSeq([t \in 1..Len(list[1][b]) |-> list[k][b][t]])])])

\* a wrong StackLast: the stages in reverse order along the last dimension
StackLastReversed(list) ==
    AsSeq([b \in 1..Len(list[1]) |-> AsSeq([t \in 1..Len(list[1][b]) |->
        AsSeq([k \in 1..Len(list) |-> list[Len(list) + 1 - k][b][t]])])])

\* torch.stack(list, dim=-1) of N tensors of shape (B, T)
StackLast(list) ==
    AsSeq([b \in 1..Len(list[1]) |-> AsSeq([t \in 1..Len(list[1][b]) |->
        AsSeq([k \in 1..Len(list) |-> list[k][b][t]])])])

RECURSIVE FracSum(_)
FracSum(s) == IF s = <<>> THEN Frac(0, 1) ELSE FracAdd(Head(s), FracSum(Tail(s)))

\* torch.stack(losses, dim=-1).mean()
MeanLoss(ls) == FracMul(FracSum(ls), Frac(1, Len(ls)))

\* after the loop: stack both lists and average the losses; torch.stack of
\* an empty list raises RuntimeError
Stack ==
    /\ pc = "loop"
    /\ Len(losses) >= self.num_quantizers
    /\ IF losses = <<>>
       THEN /\ pc' = "raised"
            /\ err' = "RuntimeError"
            /\ UNCHANGED <<loss, encoding_indices>>
       ELSE /\ encoding_indices' = StackLast(encoding_indices)
            /\ loss' = MeanLoss(losses)
            /\ pc' = "straight_through"
            /\ UNCHANGED err
    /\ UNCHANGED <<self, ctor, z, residual, z_q, losses, calls>>

\* a wrong StraightThrough: z + (z - z_q)
StraightThroughFlipped(x, zq) == TAdd(x, TSub(x, zq))

\* z + (z_q - z).detach(): the forward value of the straight-through step
StraightThrough(x, zq) == TAdd(x, TSub(zq, x))

\* the straight-through step and "return z_q, loss, encoding_indices"
Return ==
    /\ pc = "straight_through"
    /\ z_q' = IF self.straight_through THEN StraightThrough(z, z_q) ELSE z_q
    /\ pc' = "done"
    /\ UNCHANGED <<self, ctor, z, residual, loss, losses, encoding_indices,
                   calls, err>>

Init ==
    /\ pc = "start"
    /\ self = NoObject
    /\ ctor = [cls |-> "none"]
    /\ z = <<>>
    /\ residual = <<>>
    /\ z_q = <<>>
    /\ loss = Frac(0, 1)
    /\ losses = <<>>
    /\ encoding_indices = <<>>
    /\ calls = <<>>
    /\ err = ""

Next ==
    \/ NewVectorQuantizer
    \/ NewGumbelQuantizer
    \/ Forward
    \/ Stage
    \/ Stack
    \/ Return

Spec == Init /\ [][Next]_vars

(***************************************************************************)
(* GumbelQuantizer.quantize.  No constructor call yields a GumbelQuantizer *)
(* (NewGumbelQuantizer), so quantize is modelled as a function of the      *)
(* fields it reads, and SpecGumbel draws those fields in its initial state.*)
(* Softmax needs exponentials; it is modelled by what the code relies on:  *)
(* positive weights that sum to one and are ordered as the scores are; a   *)
(* weight vector is [num, den], numerators over one denominator.           *)
(* The KL loss needs logarithms and is kept as an unevaluated term.        *)
(***************************************************************************)
\* the fields of a GumbelQuantizer that quantize reads; training is
\* nn.Module's mode flag, temperature is temp_init
GumbelObject(embed_dim, n_embed, temp_init, use_norm, training, weight) ==
    [cls |-> "GumbelQuantizer",
     use_norm |-> BaseInit(FALSE, use_norm).use_norm,
     embed_dim |-> embed_dim,
     n_embed |-> n_embed,
     temperature |-> temp_init,
     training |-> training,
     embedding |-> weight]

\* temp_init: the default 1.0, as a fraction
TempInit == <<1, 1>>

\* the temp argument of quantize: None (the empty tuple) or 2.0
TempArgs == {<<>>, <<2, 1>>}

\* a Gumbel sample large enough to outweigh any difference of two logits
BigGumbel == 1 + 4 * (3 + Scale) * (3 + Scale)

\* the Gumbel noise of one position: the sample of one codebook row
\* outweighs the logits, the others are negligible
GumbelRows(n) ==
    {AsSeq([i \in 1..n |-> IF i = m THEN BigGumbel ELSE 0]) : m \in 1..n}

\* a wrong Hard: the soft relaxation in evaluation mode
HardWhenTraining(q) == q.training

\* hard = not self.training
Hard(q) == ~q.training

\* temp = self.temperature if temp is None else temp
Temp(q, temp) == IF temp = <<>> THEN q.temperature ELSE temp

\* logits[r][n] = -|z_r|^2 - |e_n|^2 + 2 z_r . e_n
Logits(zrows, erows) ==
    AsSeq([r \in 1..Len(zrows) |-> AsSeq([n \in 1..Len(erows) |->
        - SumSq(zrows[r]) - SumSq(erows[n]) + 2 * Dot(zrows[r], erows[n])])])

\* (logits + gumbels) / tau for one position: the numerators over the
\* common denominator tau[1] > 0, tau being the fraction tau[1] / tau[2]
Scores(lrow, grow, tau) ==
    AsSeq([n \in 1..Len(lrow) |-> (lrow[n] + grow[n]) * tau[2]])

\* softmax of one position, as numerators over their sum: the numerator of
\* entry n is 1 + the number of scores below score n
Softmax(srow) ==
    LET w == AsSeq([n \in 1..Len(srow) |->
                 1 + Cardinality({m \in 1..Len(srow) : srow[m] < srow[n]})])
    IN  [num |-> w, den |-> SumSeq(w)]

\* the 0-based index of the first maximal entry of a row
ArgMax(row) ==
    (CHOOSE i \in 1..Len(row) :
        /\ \A j \in 1..Len(row) : row[i] >= row[j]
        /\ \A j \in 1..(i - 1) : row[j] < row[i]) - 1

\* F.gumbel_softmax for one position: y_soft, or with hard the one-hot
\* vector of its largest entry as y_hard - y_soft.detach() + y_soft
GumbelSoftmax(lrow, grow, tau, hard) ==
    LET y_soft == Softmax(Scores(lrow, grow, tau))
        index == ArgMax(y_soft.num)
        y_hard == AsSeq([n \in 1..Len(lrow) |-> IF n = index + 1 THEN 1 ELSE 0])
    IN  IF hard
        THEN [num |-> AsSeq([n \in 1..Len(lrow) |->
                         y_hard[n] * y_soft.den - y_soft.num[n] + y_soft.num[n]]),
              den |-> y_soft.den]
        ELSE y_soft

\* einsum('b t n, n d -> b t d') at one position: the vector of the sums
\* over n of w[n] * e[n][k], as numerators over the denominator of w
Weighted(w, erows) ==
    [num |-> AsSeq([k \in 1..Len(erows[1]) |->
                 SumSeq(AsSeq([n \in 1..Len(erows) |-> w.num[n] * erows[n][k]]))]),
     den |-> w.den]

\* the KL term of the loss, kept as a term over the logits
KLLoss(q, logits) == [kl_of |-> logits, n_embed |-> q.n_embed]

\* the triple GumbelQuantizer.quantize returns for input x, argument temp
\* and Gumbel noise g (one row per position, in memory order)
GumbelQuantize(q, x, temp, g) ==
    LET hard == Hard(q)
        tau == Temp(q, temp)
        z_reshaped_norm == NormRows(q, ViewRows(x, q.embed_dim))
        embedding_norm == NormRows(q, q.embedding)
        flat == Logits(z_reshaped_norm, embedding_norm)
        logits == ViewBT(flat, Len(x), Len(x[1]))
        soft_one_hot ==
            AsSeq([b \in 1..Len(x) |-> AsSeq([t \in 1..Len(x[1]) |->
                GumbelSoftmax(logits[b][t], g[(b - 1) * Len(x[1]) + t], tau, hard)])])
    IN  [z_q |-> AsSeq([b \in 1..Len(x) |-> AsSeq([t \in 1..Len(x[1]) |->
                     Weighted(soft_one_hot[b][t], embedding_norm)])]),
         loss |-> KLLoss(q, logits),
         indices |-> AsSeq([b \in 1..Len(x) |-> AsSeq([t \in 1..Len(x[1]) |->
                         ArgMax(soft_one_hot[b][t].num)])]),
         soft_one_hot |-> soft_one_hot]

\* quantize(z, temp) on a GumbelQuantizer
GumbelQuantizeCall ==
    /\ pc = "idle"
    /\ self.cls = "GumbelQuantizer"
    /\ \E x \in Tensors(self.embed_dim), temp \in TempArgs :
          \E g \in [1..(Len(x) * Len(x[1])) -> GumbelRows(self.n_embed)] :
             \E r \in {GumbelQuantize(self, x, temp, g)} :
                /\ z' = x
                /\ z_q' = r.z_q
                /\ loss' = r.loss
                /\ encoding_indices' = r.indices
                /\ calls' = <<[input |-> x, temp |-> temp, gumbels |-> g,
                               soft_one_hot |-> r.soft_one_hot]>>
    /\ pc' = "done"
    /\ UNCHANGED <<self, ctor, residual, losses, err>>

InitGumbel ==
    /\ pc = "idle"
    /\ \E embed_dim \in EmbedDims, n_embed \in 1..MaxEmbed, use_norm \in BOOLEAN,
          training \in BOOLEAN :
          \E weight \in Weights(n_embed, embed_dim) :
             self = GumbelObject(embed_dim, n_embed, TempInit, use_norm, training, weight)
    /\ ctor = [cls |-> "none"]
    /\ z = <<>>
    /\ residual = <<>>
    /\ z_q = <<>>
    /\ loss = Frac(0, 1)
    /\ losses = <<>>
    /\ encoding_indices = <<>>
    /\ calls = <<>>
    /\ err = ""

NextGumbel == GumbelQuantizeCall

SpecGumbel == InitGumbel /\ [][NextGumbel]_vars

(***************************************************************************)
(* Properties.                                                             *)
(***************************************************************************)
\* the squared Euclidean distance of two vectors
SqDist(u, v) == SumSq(VecSub(u, v))

\* the sum of the outputs of the first n quantize calls
RECURSIVE PrefixSum(_, _, _)
PrefixSum(cs, n, x) ==
    IF n = 0 THEN ZerosLike(x) ELSE TAdd(PrefixSum(cs, n - 1, x), cs[n].z_q)

IsVQ == self.cls = "VectorQuantizer"

\* A quantize call appends its record to calls, and the state right after
\* the call is at "straight_through" (no residual quantization) or at "loop"
\* (a stage), with that record last: a property of the last record in those
\* states is a property of every quantize call.
AfterCall == pc \in {"loop", "straight_through"} /\ calls # <<>>

LastCall == calls[Len(calls)]

\* C1: every index VectorQuantizer.quantize returns is in 0..n_embed-1, and
\* the normalised codebook row it names is at least as close to the
\* normalised latent vector of its position as every other normalised row.
C1_NearestEntry ==
    AfterCall =>
        \A b \in 1..Len(LastCall.input) :
            \A t \in 1..Len(LastCall.input[b]) :
                \E i \in {LastCall.indices[b][t]} :
                    \E zn \in {Norm(self, LastCall.input[b][t])} :
                        /\ 0 <= i
                        /\ i < self.n_embed
                        /\ \A n \in 1..self.n_embed :
                              SqDist(zn, Norm(self, self.embedding[i + 1]))
                                  <= SqDist(zn, Norm(self, self.embedding[n]))

\* a normalising quantize call over two rows whose second position chose
\* row 1 because it is strictly nearer than row 0, the first position row 0
C1_Witness ==
    /\ Len(calls) >= 1
    /\ self.use_norm
    /\ self.n_embed = 2
    /\ \E b \in 1..Len(z) : \E t \in 1..Len(z[b]) :
          /\ <<b, t>> # <<1, 1>>
          /\ calls[1].indices[b][t] = 1
          /\ calls[1].indices[1][1] = 0
          /\ SqDist(Norm(self, z[b][t]), Norm(self, self.embedding[2]))
                < SqDist(Norm(self, z[b][t]), Norm(self, self.embedding[1]))

\* C2: a VectorQuantizer's straight_through flag is True whatever it was
\* constructed with, and without residual quantization forward returns at
\* every position the normalised codebook row of the index returned for it
\* (the codebook row itself when use_norm is False).
C2_OutputIsCodebookEntry ==
    /\ IsVQ => self.straight_through
    /\ (pc = "done" /\ ~self.use_residual) =>
          \A b \in 1..Len(z) : \A t \in 1..Len(z[b]) :
              /\ z_q[b][t] = Norm(self, self.embedding[encoding_indices[b][t] + 1])
              /\ ~self.use_norm => z_q[b][t] = self.embedding[encoding_indices[b][t] + 1]

\* forward returned, without residual quantization, from a quantizer built
\* with straight_through=False, and the output differs from the input
C2_Witness ==
    /\ pc = "done"
    /\ ~self.use_residual
    /\ ctor.kw = "False"
    /\ self.use_norm
    /\ \E b \in 1..Len(z) : \E t \in 1..Len(z[b]) :
          z_q[b][t] # z[b][t] /\ z_q[b][t] # self.embedding[encoding_indices[b][t] + 1]

\* C3: with residual quantization and N >= 1, forward makes exactly N
\* quantize calls; call k is given z minus the outputs of calls 1..k-1; after
\* every stage residual + z_q = z; and the quantized tensor, before and after
\* the straight-through step, is the sum of the N outputs.  (In the loop the
\* last call made stands for call k, see AfterCall.)
C3_ResidualStages ==
    (IsVQ /\ self.use_residual /\ self.num_quantizers >= 1) =>
        /\ pc = "loop" =>
              /\ Len(calls) <= self.num_quantizers
              /\ TAdd(residual, z_q) = z
              /\ z_q = PrefixSum(calls, Len(calls), z)
              /\ calls # <<>> =>
                    LastCall.input = TSub(z, PrefixSum(calls, Len(calls) - 1, z))
        /\ pc \in {"straight_through", "done"} =>
              /\ Len(calls) = self.num_quantizers
              /\ TAdd(residual, z_q) = z
              /\ z_q = PrefixSum(calls, self.num_quantizers, z)

\* forward returned after two stages, the second given a residual that is
\* not the input and answering with an output that is not zero
C3_Witness ==
    /\ pc = "done"
    /\ self.use_residual
    /\ self.num_quantizers = 2
    /\ calls[2].input # z
    /\ calls[2].z_q # ZerosLike(z)
    /\ residual # ZerosLike(z)

\* the shapes of what forward returned: the quantized tensor has the shape of
\* z, the loss is one scalar, and the indices hold one codebook index per
\* latent vector, (B, T) without residual quantization and
\* (B, T, num_quantizers) with it
ReturnedShapes ==
    /\ Shape(z_q) = Shape(z)
    /\ \A b \in 1..Len(z) :
          /\ Len(z_q[b]) = Len(z[b])
          /\ \A t \in 1..Len(z[b]) : Len(z_q[b][t]) = Len(z[b][t])
    /\ DOMAIN loss = {"num", "den"}
    /\ loss.den > 0
    /\ Len(encoding_indices) = Len(z)
    /\ \A b \in 1..Len(z) :
          /\ Len(encoding_indices[b]) = Len(z[b])
          /\ \A t \in 1..Len(z[b]) :
                IF self.use_residual
                THEN /\ Len(encoding_indices[b][t]) = self.num_quantizers
                     /\ \A k \in 1..self.num_quantizers :
                           encoding_indices[b][t][k] \in 0..(self.n_embed - 1)
                ELSE encoding_indices[b][t] \in 0..(self.n_embed - 1)

\* C4 as stated: forward always returns, never raising, and what it returns
\* has the shapes fixed by the input.
C4_AlwaysReturns ==
    /\ IsVQ => pc # "raised"
    /\ pc = "done" => ReturnedShapes

\* C4 amended: forward raises only with residual quantization and
\* num_quantizers None (TypeError) or 0 (RuntimeError); in every other case
\* it does not raise, and whatever it returns has the shapes fixed by the
\* input.
C4_ReturnShapes ==
    /\ (IsVQ /\ pc = "raised") =>
          /\ self.use_residual
          /\ \/ self.num_quantizers = None /\ err = "TypeError"
             \/ self.num_quantizers = 0 /\ err = "RuntimeError"
    /\ pc = "done" =>
          /\ ReturnedShapes
          /\ self.use_residual => self.num_quantizers >= 1

\* forward returned from two residual stages on an input of shape (2, 1, 2)
C4_Witness ==
    /\ pc = "done"
    /\ self.use_residual
    /\ self.num_quantizers = 2
    /\ Shape(z) = <<2, 1, 2>>

\* C6: constructing a GumbelQuantizer completes without raising and yields a
\* quantizer with straight_through False and the use_residual and
\* num_quantizers that were passed.
C6_GumbelConstructs ==
    ctor.cls = "GumbelQuantizer" =>
        /\ pc # "raised"
        /\ self.cls = "GumbelQuantizer"
        /\ ~self.straight_through
        /\ self.use_residual = ctor.use_residual
        /\ self.num_quantizers = ctor.num_quantizers

\* C7: with residual quantization the returned indices keep stage order,
\* indices[b, t, k] being the index call k+1 chose; every call used the one
\* codebook of the quantizer; and the returned loss is the mean of the
\* per-stage losses.
C7_StageOrder ==
    (pc = "done" /\ self.use_residual) =>
        /\ \A b \in 1..Len(z) : \A t \in 1..Len(z[b]) :
              \A k \in 1..self.num_quantizers :
                  encoding_indices[b][t][k] = calls[k].indices[b][t]
        /\ \A k \in 1..Len(calls) : calls[k].embedding = self.embedding
        /\ FracMul(loss, Frac(self.num_quantizers, 1))
              = FracSum(AsSeq([k \in 1..Len(calls) |-> calls[k].loss]))

\* forward returned after two stages that chose different indices and had
\* different losses
C7_Witness ==
    /\ pc = "done"
    /\ self.use_residual
    /\ self.num_quantizers = 2
    /\ calls[1].indices[1][1] # calls[2].indices[1][1]
    /\ calls[1].loss # calls[2].loss
    /\ loss.num # 0

\* the mean over all entries of the squared difference between the
\* normalised selected rows and the normalised latent vectors of call c
CallMSE(c) ==
    Frac(SumSeq(AsSeq([b \in 1..Len(c.input) |->
             SumSeq(AsSeq([t \in 1..Len(c.input[b]) |->
                 SqDist(Norm(self, c.embedding[c.indices[b][t] + 1]),
                        Norm(self, c.input[b][t]))]))])),
         Len(c.input) * Len(c.input[1]) * self.embed_dim)

\* C8: the loss of VectorQuantizer.quantize is (1 + beta) times the mean
\* squared difference between the normalised selected entries and the
\* normalised latent vectors; for beta >= 0 it is never negative, and zero
\* exactly when every latent vector equals its selected entry after
\* normalisation.
C8_LossValue ==
    AfterCall =>
        /\ LastCall.loss
              = FracMul(FracAdd(Frac(1, 1), Frac(self.beta[1], self.beta[2])),
                        CallMSE(LastCall))
        /\ self.beta[1] >= 0 =>
              /\ LastCall.loss.num >= 0
              /\ LastCall.loss.num = 0 <=>
                    \A b \in 1..Len(LastCall.input) :
                        \A t \in 1..Len(LastCall.input[b]) :
                            Norm(self, LastCall.input[b][t])
                                = Norm(self, self.embedding[LastCall.indices[b][t] + 1])

\* a quantize call with the default beta whose first latent vector equals
\* its entry after normalisation and whose second does not: a positive loss
C8_Witness ==
    /\ Len(calls) >= 1
    /\ self.beta = <<1, 4>>
    /\ Len(calls[1].input[1]) = 2
    /\ Norm(self, calls[1].input[1][1])
          = Norm(self, self.embedding[calls[1].indices[1][1] + 1])
    /\ Norm(self, calls[1].input[1][2])
          # Norm(self, self.embedding[calls[1].indices[1][2] + 1])
    /\ calls[1].loss.num > 0

====
